---- MODULE Spec2Model ----
(***************************************************************************)
(* Yarer: infix-to-postfix conversion (shunting yard) and postfix          *)
(* evaluation over a tagged Number (BigInt | f64) with a variable heap.    *)
(*                                                                         *)
(* A behaviour is the life of one RpnResolver handle: parse (the scan of   *)
(* the token sequence, one step per token, then the final flush), and      *)
(* then any sequence of resolve() and set() calls, resolve() taking one    *)
(* step per postfix token.  The input of parse is the token sequence the   *)
(* tokenizer hands to reverse_polish_notation.                             *)
(*                                                                         *)
(* Abstractions: BigInt values are kept within MaxAbs (an operation whose  *)
(* result leaves that range is not taken); an f64 is the exact rational    *)
(* n/d it denotes (d = 0: n = 1 is +inf, n = -1 is -inf, n = 0 is NaN),    *)
(* rounding is not modelled, and an f64 operation whose result is not a    *)
(* rational within MaxAbs (sin 1, 2 ^ 0.5, ...) is not taken.              *)
(***************************************************************************)
EXTENDS Integers, Sequences, FiniteSets, TLC

VARIABLES infix, idx, operators_stack, postfix_stack, local_heap,
          rpn_expr, result_stack, pc, ret, log

vars == <<infix, idx, operators_stack, postfix_stack, local_heap,
          rpn_expr, result_stack, pc, ret, log>>

----------------------------------------------------------------------------
(* Bounds of the model *)

MaxLen == 2
MaxAbs == 10000
MaxFracDigits == 16
MaxResolves == 2
MaxSets == 1

----------------------------------------------------------------------------
(* Number *)

NaturalNumber(v) == [tag |-> "NaturalNumber", n |-> v, d |-> 1]
DecimalNumber(n, d) == [tag |-> "DecimalNumber", n |-> n, d |-> d]

\* Outcomes of an operation that yields no Number: a Rust panic, and a
\* result outside the range the model represents.
Panic == [tag |-> "Panic"]
Beyond == [tag |-> "Beyond"]

IsNumber(r) == r.tag \in {"NaturalNumber", "DecimalNumber"}

AbsInt(x) == IF x < 0 THEN -x ELSE x

InRange(v) == AbsInt(v) <= MaxAbs

RECURSIVE GCD(_, _)
GCD(a, b) == IF b = 0 THEN a ELSE GCD(b, a % b)

MkNat(v) == IF InRange(v) THEN NaturalNumber(v) ELSE Beyond

\* The f64 that is the rational n/d, d # 0, in lowest terms.
MkDec(n, d) ==
    LET s == IF d < 0 THEN -1 ELSE 1
        g == GCD(AbsInt(n), AbsInt(d))
        nn == (s * n) \div g
        dd == (s * d) \div g
    IN  IF InRange(nn) /\ InRange(dd) THEN DecimalNumber(nn, dd) ELSE Beyond

PosInf == DecimalNumber(1, 0)
NegInf == DecimalNumber(-1, 0)
NaN == DecimalNumber(0, 0)

IsFinite(x) == x.d # 0

\* From<Number> for f64.
ToF64(num) == DecimalNumber(num.n, num.d)

\* b^e for e >= 0, stopping once the magnitude has left the model's range.
RECURSIVE PowAcc(_, _, _)
PowAcc(b, e, acc) ==
    IF e = 0 \/ ~InRange(acc) THEN acc ELSE PowAcc(b, e - 1, acc * b)

PowSat(b, e) ==
    IF e = 0 THEN 1
    ELSE IF b = 0 THEN 0
    ELSE IF b = 1 THEN 1
    ELSE IF b = -1 THEN (IF e % 2 = 0 THEN 1 ELSE -1)
    ELSE PowAcc(b, e, 1)

\* BigInt closures handed to apply_functional_token_operation.
NatAdd(a, b) == MkNat(a + b)
NatSub(a, b) == MkNat(a - b)
NatMul(a, b) == MkNat(a * b)
\* A division that yields zero on a zero divisor.
NatDiv_zero(a, b) ==
    IF b = 0 THEN NaturalNumber(0)
    ELSE LET q == AbsInt(a) \div AbsInt(b)
         IN  MkNat(IF (a < 0) = (b < 0) THEN q ELSE -q)

\* BigInt division truncates toward zero and panics on a zero divisor.
NatDiv(a, b) ==
    IF b = 0 THEN Panic
    ELSE LET q == AbsInt(a) \div AbsInt(b)
         IN  MkNat(IF (a < 0) = (b < 0) THEN q ELSE -q)
\* BigInt::pow(&a, b.try_into().expect(..)): a negative exponent panics.
NatPow(a, b) == IF b < 0 THEN Panic ELSE MkNat(PowSat(a, b))

\* f64 closures (IEEE 754, the sign of a zero not kept).
IsNaN(x) == x.n = 0 /\ x.d = 0
IsInf(x) == x.n # 0 /\ x.d = 0
Sign(x) == IF x.n < 0 THEN -1 ELSE 1
Neg(x) == DecimalNumber(-x.n, x.d)

DecAdd(x, y) ==
    IF IsNaN(x) \/ IsNaN(y) THEN NaN
    ELSE IF IsInf(x) /\ IsInf(y) THEN (IF x.n = y.n THEN x ELSE NaN)
    ELSE IF IsInf(x) THEN x
    ELSE IF IsInf(y) THEN y
    ELSE MkDec(x.n * y.d + y.n * x.d, x.d * y.d)
DecSub(x, y) == DecAdd(x, Neg(y))
DecMul(x, y) ==
    IF IsNaN(x) \/ IsNaN(y) THEN NaN
    ELSE IF IsInf(x) \/ IsInf(y) THEN
        (IF x.n = 0 \/ y.n = 0 THEN NaN ELSE DecimalNumber(Sign(x) * Sign(y), 0))
    ELSE MkDec(x.n * y.n, x.d * y.d)
DecDiv(x, y) ==
    IF IsNaN(x) \/ IsNaN(y) THEN NaN
    ELSE IF IsInf(x) THEN
        (IF IsInf(y) THEN NaN ELSE DecimalNumber(Sign(x) * Sign(y), 0))
    ELSE IF IsInf(y) THEN DecimalNumber(0, 1)
    ELSE IF y.n # 0 THEN MkDec(x.n * y.d, x.d * y.n)
    ELSE IF x.n > 0 THEN PosInf
    ELSE IF x.n < 0 THEN NegInf
    ELSE NaN
\* f64::powf, for the exponents whose power is rational.
DecPow(x, y) ==
    IF ~(IsFinite(x) /\ IsFinite(y)) \/ y.d # 1 THEN Beyond
    ELSE IF y.n >= 0 THEN
        LET pn == PowSat(x.n, y.n)
            pd == PowSat(x.d, y.n)
        IN  IF InRange(pn) /\ InRange(pd) THEN MkDec(pn, pd) ELSE Beyond
    ELSE IF x.n = 0 THEN PosInf
    ELSE
        LET pn == PowSat(x.d, -y.n)
            pd == PowSat(x.n, -y.n)
        IN  IF InRange(pn) /\ InRange(pd) THEN MkDec(pn, pd) ELSE Beyond

\* The two closures each operator impl hands over, selected by its name.
nf(op, a, b) ==
    CASE op = "Add" -> NatAdd(a, b)
      [] op = "Sub" -> NatSub(a, b)
      [] op = "Mul" -> NatMul(a, b)
      [] op = "Div" -> NatDiv(a, b)
      [] op = "Pow" -> NatPow(a, b)

df(op, x, y) ==
    CASE op = "Add" -> DecAdd(x, y)
      [] op = "Sub" -> DecSub(x, y)
      [] op = "Mul" -> DecMul(x, y)
      [] op = "Div" -> DecDiv(x, y)
      [] op = "Pow" -> DecPow(x, y)

\* Every pair of operands promoted to f64, two integers included.
apply_functional_token_operation_f64(ln, rn, op) == df(op, ToF64(ln), ToF64(rn))

apply_functional_token_operation(ln, rn, op) ==
    IF ln.tag = "NaturalNumber" /\ rn.tag = "NaturalNumber" THEN nf(op, ln.n, rn.n)
    ELSE IF ln.tag = "NaturalNumber" THEN df(op, ToF64(ln), rn)
    ELSE df(op, ln, ToF64(rn))

add(l, r) == apply_functional_token_operation(l, r, "Add")
sub(l, r) == apply_functional_token_operation(l, r, "Sub")
mul(l, r) == apply_functional_token_operation(l, r, "Mul")
div(l, r) == apply_functional_token_operation(l, r, "Div")
bitxor(l, r) == apply_functional_token_operation(l, r, "Pow")

----------------------------------------------------------------------------
(* Display for Number *)

Digits == <<"0", "1", "2", "3", "4", "5", "6", "7", "8", "9">>

RECURSIVE NatToString(_)
NatToString(v) ==
    IF v < 10 THEN Digits[v + 1]
    ELSE NatToString(v \div 10) \o Digits[(v % 10) + 1]

IntToString(v) == IF v < 0 THEN "-" \o NatToString(-v) ELSE NatToString(v)

RECURSIVE FracDigits(_, _, _)
FracDigits(r, d, k) ==
    IF r = 0 \/ k = 0 THEN ""
    ELSE Digits[((r * 10) \div d) + 1] \o FracDigits((r * 10) % d, d, k - 1)

to_string(num) ==
    IF num.tag = "NaturalNumber" THEN IntToString(num.n)
    ELSE IF num.d = 0 THEN
        (IF num.n > 0 THEN "inf" ELSE IF num.n < 0 THEN "-inf" ELSE "NaN")
    ELSE IF num.d = 1 THEN IntToString(num.n)
    ELSE (IF num.n < 0 THEN "-" ELSE "")
         \o NatToString(AbsInt(num.n) \div num.d) \o "."
         \o FracDigits(AbsInt(num.n) % num.d, num.d, MaxFracDigits)

----------------------------------------------------------------------------
(* Token *)

Operand(num) == [type |-> "Operand", num |-> num]
Operator(o) == [type |-> "Operator", op |-> o]
Bracket(b) == [type |-> "Bracket", br |-> b]
Function(f) == [type |-> "Function", fn |-> f]
Variable(s) == [type |-> "Variable", id |-> s]

Open == Bracket("Open")
Close == Bracket("Close")

LeftAssociative == "LeftAssociative"
RightAssociative == "RightAssociative"

operator_priority(o) ==
    CASE o.op \in {"Add", "Sub"} -> <<1, LeftAssociative>>
      [] o.op \in {"Mul", "Div"} -> <<2, LeftAssociative>>
      [] o.op = "Pow" -> <<3, RightAssociative>>
      [] o.op = "Une" -> <<4, RightAssociative>>
      [] o.op = "Fac" -> <<5, LeftAssociative>>
      [] o.op = "Eql" -> <<0, LeftAssociative>>

\* compare_operator_priority with the left-associative test made strict.
compare_operator_priority_strict(op1, op2) ==
    operator_priority(op1)[1] < operator_priority(op2)[1]

compare_operator_priority(op1, op2) ==
    LET v_op1 == operator_priority(op1)
        v_op2 == operator_priority(op2)
    IN  \/ v_op1[2] = LeftAssociative /\ v_op1[1] <= v_op2[1]
        \/ v_op1[2] = RightAssociative /\ v_op1[1] < v_op2[1]

----------------------------------------------------------------------------
(* The variable heap: a map from String to Number *)

HeapInsert(h, k, v) == [x \in DOMAIN h \cup {k} |-> IF x = k THEN v ELSE h[x]]

PI == DecimalNumber(6283, 2000)

init_local_heap == HeapInsert(<<>>, "PI", PI)

----------------------------------------------------------------------------
(* Inputs: the token sequences handed to reverse_polish_notation *)

N(v) == Operand(NaturalNumber(v))
D(n, d) == Operand(DecimalNumber(n, d))
Op(o) == Operator(o)
Fn(f) == Function(f)
Var(s) == Variable(s)

ArithOps == {"Add", "Sub", "Mul", "Div", "Pow"}
Operators == ArithOps \cup {"Eql"}
\* The functions resolve() has an arm for.
Functions == {"Sin", "Cos", "Tan", "Abs", "Max", "Min", "None"}

\* "(3 + 4 * (2 - (3 + 1) * 5 + 3) - 6) * 2 + 4"
Expr122 ==
    <<Open, N(3), Op("Add"), N(4), Op("Mul"), Open, N(2), Op("Sub"), Open,
      N(3), Op("Add"), N(1), Close, Op("Mul"), N(5), Op("Add"), N(3), Close,
      Op("Sub"), N(6), Close, Op("Mul"), N(2), Op("Add"), N(4)>>

\* "3 * 2^3 + 6 / (2 + 1)"
Expr26 ==
    <<N(3), Op("Mul"), N(2), Op("Pow"), N(3), Op("Add"), N(6), Op("Div"),
      Open, N(2), Op("Add"), N(1), Close>>

\* "sin(pi / 4) + cos(pi / 4)"
ExprSinCos ==
    <<Fn("Sin"), Open, Var("pi"), Op("Div"), N(4), Close, Op("Add"),
      Fn("Cos"), Open, Var("pi"), Op("Div"), N(4), Close>>

\* "x = 5", "x+1", "y + 1", "10 - 3 - 2", "2^3^2", "1.0 / 0"
ExprAssign == <<Var("x"), Op("Eql"), N(5)>>
ExprXPlus1 == <<Var("x"), Op("Add"), N(1)>>
ExprYPlus1 == <<Var("y"), Op("Add"), N(1)>>
ExprSubSub == <<N(10), Op("Sub"), N(3), Op("Sub"), N(2)>>
ExprPowPow == <<N(2), Op("Pow"), N(3), Op("Pow"), N(2)>>
ExprDivZero == <<D(1, 1), Op("Div"), N(0)>>

\* "0.0 / 0", "(0 - 1.0) / 0"
ExprZeroDivZero == <<D(0, 1), Op("Div"), N(0)>>
ExprNegDivZero == <<Open, N(0), Op("Sub"), D(1, 1), Close, Op("Div"), N(0)>>

TestExprs ==
    {Expr122, Expr26, ExprSinCos, ExprAssign, ExprXPlus1, ExprYPlus1,
     ExprSubSub, ExprPowPow, ExprDivZero, ExprZeroDivZero, ExprNegDivZero}

\* Every token sequence of at most MaxLen tokens over this alphabet.
Alphabet ==
    {N(0), N(2), N(3), D(1, 2)}
    \cup {Op(o) : o \in Operators}
    \cup {Open, Close}
    \cup {Fn(f) : f \in Functions}
    \cup {Var("x"), Var("PI")}

ShortInputs == UNION {[1..k -> Alphabet] : k \in 0..MaxLen}

\* a op1 b op2 c
ThreeLits == {N(0), N(2), N(3), N(10), D(1, 2)}
ThreeOperands ==
    {<<a, Op(o1), b, Op(o2), c>> :
        a \in ThreeLits, b \in ThreeLits, c \in ThreeLits,
        o1 \in ArithOps, o2 \in ArithOps}

\* a op1 b op2 c op3 d over +, -, *
FlatOps == {"Add", "Sub", "Mul"}
FourLits == {N(1), N(2), N(3)}
FourOperands ==
    {<<a, Op(o1), b, Op(o2), c, Op(o3), e>> :
        a \in FourLits, b \in FourLits, c \in FourLits, e \in FourLits,
        o1 \in FlatOps, o2 \in FlatOps, o3 \in FlatOps}

\* fn ( a ) op b
CallArgs == {N(0), N(2), D(1, 2), Var("x")}
Calls ==
    {<<Fn(f), Open, a, Close, Op(o), b>> :
        f \in Functions, a \in CallArgs, o \in Operators, b \in CallArgs}

\* a / b
QuotientLits == {N(0), N(2), D(0, 1), D(1, 1), D(1, 2)}
Quotients == {<<a, Op("Div"), b>> : a \in QuotientLits, b \in QuotientLits}

\* l = r
Assignments ==
    {<<l, Op("Eql"), r>> : l \in {Var("x"), N(2), D(1, 2)}, r \in {N(3), D(1, 2), Var("PI")}}

Inputs ==
    TestExprs \cup ShortInputs \cup ThreeOperands \cup FourOperands \cup Calls
    \cup Quotients \cup Assignments

SetNames == {"x", "PI"}
SetValues == {DecimalNumber(1, 1)}

----------------------------------------------------------------------------
(* State *)

None == [kind |-> "None"]
Ok(num) == [kind |-> "Ok", val |-> num]
Err == [kind |-> "Err"]

NumResolves == Cardinality({i \in DOMAIN log : log[i].ev = "resolve"})
NumSets == Cardinality({i \in DOMAIN log : log[i].ev = "set"})

Init ==
    /\ infix \in Inputs
    /\ idx = 1
    /\ operators_stack = <<>>
    /\ postfix_stack = <<>>
    /\ local_heap = init_local_heap
    /\ rpn_expr = <<>>
    /\ result_stack = <<>>
    /\ pc = "convert"
    /\ ret = None
    /\ log = <<>>

----------------------------------------------------------------------------
(* RpnResolver::reverse_polish_notation, one step per scanned token *)

Last(s) == s[Len(s)]
Front(s) == SubSeq(s, 1, Len(s) - 1)

Scanning(type) ==
    /\ pc = "convert"
    /\ idx <= Len(infix)
    /\ infix[idx].type = type

ScanOperand ==
    /\ Scanning("Operand")
    /\ postfix_stack' = Append(postfix_stack, infix[idx])
    /\ idx' = idx + 1
    /\ UNCHANGED <<infix, operators_stack, local_heap, rpn_expr, result_stack,
                   pc, ret, log>>

ScanOpenBracket ==
    /\ Scanning("Bracket")
    /\ infix[idx].br = "Open"
    /\ operators_stack' = Append(operators_stack, infix[idx])
    /\ idx' = idx + 1
    /\ UNCHANGED <<infix, postfix_stack, local_heap, rpn_expr, result_stack,
                   pc, ret, log>>

\* The loop with the Open bracket peeked at and left on the stack.
RECURSIVE PopUntilOpen_peek(_, _)
PopUntilOpen_peek(ops, out) ==
    IF ops = <<>> THEN <<ops, out>>
    ELSE IF Last(ops) = Open THEN <<ops, out>>
    ELSE PopUntilOpen_peek(Front(ops), Append(out, Last(ops)))

\* while let Some(token) = operators_stack.pop(): Open breaks, others go out.
RECURSIVE PopUntilOpen(_, _)
PopUntilOpen(ops, out) ==
    IF ops = <<>> THEN <<ops, out>>
    ELSE IF Last(ops) = Open THEN <<Front(ops), out>>
    ELSE PopUntilOpen(Front(ops), Append(out, Last(ops)))

ScanCloseBracket ==
    /\ Scanning("Bracket")
    /\ infix[idx].br = "Close"
    /\ LET r == PopUntilOpen(operators_stack, postfix_stack)
       IN  /\ operators_stack' = r[1]
           /\ postfix_stack' = r[2]
    /\ idx' = idx + 1
    /\ UNCHANGED <<infix, local_heap, rpn_expr, result_stack, pc, ret, log>>

\* The Operator arm: at most one op2 is popped before op1 is pushed.
PushOperator(ops, out, op1) ==
    IF ops # <<>> /\ Last(ops).type = "Operator"
       /\ compare_operator_priority(op1, Last(ops))
    THEN <<Append(Front(ops), op1), Append(out, Last(ops))>>
    ELSE <<Append(ops, op1), out>>

ScanOperator ==
    /\ Scanning("Operator")
    /\ LET r == PushOperator(operators_stack, postfix_stack, infix[idx])
       IN  /\ operators_stack' = r[1]
           /\ postfix_stack' = r[2]
    /\ idx' = idx + 1
    /\ UNCHANGED <<infix, local_heap, rpn_expr, result_stack, pc, ret, log>>

ScanFunction ==
    /\ Scanning("Function")
    /\ operators_stack' = Append(operators_stack, infix[idx])
    /\ idx' = idx + 1
    /\ UNCHANGED <<infix, postfix_stack, local_heap, rpn_expr, result_stack,
                   pc, ret, log>>

\* A default of one in place of zero.
default_value_one == NaturalNumber(1)

\* The value a scanned variable is inserted with.
default_value == NaturalNumber(0)

RegisterVariable(heap, s) == HeapInsert(heap, s, default_value)

ScanVariable ==
    /\ Scanning("Variable")
    /\ postfix_stack' = Append(postfix_stack, infix[idx])
    /\ local_heap' = RegisterVariable(local_heap, infix[idx].id)
    /\ idx' = idx + 1
    /\ UNCHANGED <<infix, operators_stack, rpn_expr, result_stack, pc, ret, log>>

\* while !operators_stack.is_empty(): pop to the output.
RECURSIVE PopAll(_, _)
PopAll(ops, out) ==
    IF ops = <<>> THEN out ELSE PopAll(Front(ops), Append(out, Last(ops)))

\* End of the scan: the flush, the return, and parse's construction of the
\* handle from (rpn_expr, local_heap).
FinishParse ==
    /\ pc = "convert"
    /\ idx > Len(infix)
    /\ rpn_expr' = PopAll(operators_stack, postfix_stack)
    /\ operators_stack' = <<>>
    /\ postfix_stack' = <<>>
    /\ pc' = "ready"
    /\ UNCHANGED <<infix, idx, local_heap, result_stack, ret, log>>

----------------------------------------------------------------------------
(* RpnResolver::resolve, one step per token popped from rpn_expr *)

ResolveEnter ==
    /\ pc = "ready"
    /\ NumResolves < MaxResolves
    /\ result_stack' = <<>>
    /\ pc' = "resolve"
    /\ UNCHANGED <<infix, idx, operators_stack, postfix_stack, local_heap,
                   rpn_expr, ret, log>>

Evaluating(type) ==
    /\ pc = "resolve"
    /\ rpn_expr # <<>>
    /\ Head(rpn_expr).type = type

\* A panic unwinds out of resolve(): the call returns nothing.
Unwind ==
    /\ pc' = "panicked"
    /\ result_stack' = <<>>
    /\ log' = Append(log, [ev |-> "panic"])
    /\ UNCHANGED <<local_heap, ret>>

EvalOperand ==
    /\ Evaluating("Operand")
    /\ rpn_expr' = Tail(rpn_expr)
    /\ result_stack' = Append(result_stack, Head(rpn_expr).num)
    /\ UNCHANGED <<infix, idx, operators_stack, postfix_stack, local_heap,
                   pc, ret, log>>

BinaryOp(op, left_value, right_value) ==
    CASE op = "Add" -> add(left_value, right_value)
      [] op = "Sub" -> sub(left_value, right_value)
      [] op = "Mul" -> mul(left_value, right_value)
      [] op = "Div" -> div(left_value, right_value)
      [] op = "Pow" -> bitxor(left_value, right_value)

\* The key as the Debug form of the left value instead of its Display form.
EqlKey_debug(left_value) == left_value.tag \o "(" \o to_string(left_value) \o ")"

\* The key the Eql arm binds.
EqlKey(left_value) == to_string(left_value)

EvalOperator ==
    /\ Evaluating("Operator")
    /\ rpn_expr' = Tail(rpn_expr)
    /\ UNCHANGED <<infix, idx, operators_stack, postfix_stack>>
    /\ IF Len(result_stack) < 2 THEN Unwind
       ELSE LET op == Head(rpn_expr).op
                right_value == Last(result_stack)
                left_value == Last(Front(result_stack))
                rest == Front(Front(result_stack))
            IN  IF op = "Eql"
                THEN /\ local_heap' = HeapInsert(local_heap, EqlKey(left_value), right_value)
                     /\ result_stack' = Append(rest, right_value)
                     /\ UNCHANGED <<pc, ret, log>>
                ELSE LET r == BinaryOp(op, left_value, right_value)
                     IN  /\ r # Beyond
                         /\ IF r = Panic THEN Unwind
                            ELSE /\ result_stack' = Append(rest, r)
                                 /\ UNCHANGED <<local_heap, pc, ret, log>>

\* f64::sin, cos, tan where the result is rational; abs, max, min exactly.
Less(x, y) == x.n * y.d < y.n * x.d

UnaryFn(fun, x) ==
    CASE fun = "Abs" -> DecimalNumber(AbsInt(x.n), x.d)
      [] fun \in {"Sin", "Tan"} -> IF IsFinite(x) /\ x.n = 0 THEN DecimalNumber(0, 1) ELSE Beyond
      [] fun = "Cos" -> IF IsFinite(x) /\ x.n = 0 THEN DecimalNumber(1, 1) ELSE Beyond

BinaryFn(fun, x, y) ==
    IF ~(IsFinite(x) /\ IsFinite(y)) THEN Beyond
    ELSE IF fun = "Max" THEN (IF Less(x, y) THEN y ELSE x)
    ELSE (IF Less(y, x) THEN y ELSE x)

EvalFunction ==
    /\ Evaluating("Function")
    /\ rpn_expr' = Tail(rpn_expr)
    /\ UNCHANGED <<infix, idx, operators_stack, postfix_stack>>
    /\ LET fun == Head(rpn_expr).fn
       IN  IF result_stack = <<>> THEN Unwind
           ELSE IF fun = "None" THEN Unwind
           ELSE IF fun \in {"Max", "Min"} THEN
               IF Len(result_stack) < 2 THEN Unwind
               ELSE LET value == ToF64(Last(result_stack))
                        value2 == ToF64(Last(Front(result_stack)))
                        res == BinaryFn(fun, value, value2)
                    IN  /\ res # Beyond
                        /\ result_stack' = Append(Front(Front(result_stack)), res)
                        /\ UNCHANGED <<local_heap, pc, ret, log>>
           ELSE LET res == UnaryFn(fun, ToF64(Last(result_stack)))
                IN  /\ res # Beyond
                    /\ result_stack' = Append(Front(result_stack), res)
                    /\ UNCHANGED <<local_heap, pc, ret, log>>

\* self.local_heap.get(v).unwrap_or_else(|| &Number::NaturalNumber(0))
Lookup(heap, v) == IF v \in DOMAIN heap THEN heap[v] ELSE NaturalNumber(0)

EvalVariable ==
    /\ Evaluating("Variable")
    /\ rpn_expr' = Tail(rpn_expr)
    /\ result_stack' = Append(result_stack, Lookup(local_heap, Head(rpn_expr).id))
    /\ UNCHANGED <<infix, idx, operators_stack, postfix_stack, local_heap,
                   pc, ret, log>>

\* _ => panic!("This '{}' cannot be yet recognised!", t)
EvalBracket ==
    /\ Evaluating("Bracket")
    /\ rpn_expr' = Tail(rpn_expr)
    /\ UNCHANGED <<infix, idx, operators_stack, postfix_stack>>
    /\ Unwind

\* result_stack.pop_front().ok_or("Something went terribly wrong here.")
Returned(stack) == IF stack = <<>> THEN Err ELSE Ok(Head(stack))

ResolveReturn ==
    /\ pc = "resolve"
    /\ rpn_expr = <<>>
    /\ ret' = Returned(result_stack)
    /\ result_stack' = IF result_stack = <<>> THEN <<>> ELSE Tail(result_stack)
    /\ log' = Append(log, [ev |-> "resolve", ret |-> Returned(result_stack)])
    /\ pc' = "ready"
    /\ UNCHANGED <<infix, idx, operators_stack, postfix_stack, local_heap, rpn_expr>>

----------------------------------------------------------------------------
(* RpnResolver::set *)

Set(name, value) ==
    /\ pc = "ready"
    /\ NumSets < MaxSets
    /\ local_heap' = HeapInsert(local_heap, name, value)
    /\ log' = Append(log, [ev |-> "set", name |-> name, value |-> value])
    /\ UNCHANGED <<infix, idx, operators_stack, postfix_stack, rpn_expr,
                   result_stack, pc, ret>>

SetCall == \E name \in SetNames, value \in SetValues : Set(name, value)

----------------------------------------------------------------------------

Next ==
    \/ ScanOperand
    \/ ScanOpenBracket
    \/ ScanCloseBracket
    \/ ScanOperator
    \/ ScanFunction
    \/ ScanVariable
    \/ FinishParse
    \/ ResolveEnter
    \/ EvalOperand
    \/ EvalOperator
    \/ EvalFunction
    \/ EvalVariable
    \/ EvalBracket
    \/ ResolveReturn
    \/ SetCall

Spec == Init /\ [][Next]_vars

----------------------------------------------------------------------------
(* Vocabulary of the properties *)

\* The handle has just been built by parse: nothing was called on it yet.
Parsed == pc = "ready" /\ log = <<>>

\* resolve() was the first call on the handle, and it is over.
FirstResolveOver == log # <<>> /\ log[1].ev \in {"resolve", "panic"}

ResolveGave(r) == [ev |-> "resolve", ret |-> r]
Panicked == [ev |-> "panic"]

\* What a resolve() that computes r ends with.
Ends(r) == IF r = Panic THEN Panicked ELSE ResolveGave(Ok(r))

\* op applied to the outcomes of two sub-expressions, the left one first.
Apply(op, l, r) ==
    IF ~IsNumber(l) THEN l ELSE IF ~IsNumber(r) THEN r ELSE BinaryOp(op, l, r)

IsOperand(t) == t.type = "Operand"
IsOperator(t) == t.type = "Operator"

\* The conventional value of a bracket-free  t1 o1 t2 o2 ...  over +, -, *:
\* the sum, left to right, of the signed products.
RECURSIVE FlatSum(_, _, _, _, _)
FlatSum(e, i, sum, term, sgn) ==
    IF i > Len(e) THEN sum + sgn * term
    ELSE IF e[i].op = "Mul" THEN FlatSum(e, i + 2, sum, term * e[i + 1].num.n, sgn)
    ELSE FlatSum(e, i + 2, sum + sgn * term, e[i + 1].num.n,
                 IF e[i].op = "Add" THEN 1 ELSE -1)

FlatValue(e) == NaturalNumber(FlatSum(e, 2, 0, e[1].num.n, 1))

\* Brackets balance: no Close without an earlier unmatched Open, none left open.
RECURSIVE Depth(_, _, _)
Depth(e, i, depth) ==
    IF depth < 0 THEN -1
    ELSE IF i > Len(e) THEN depth
    ELSE IF e[i].type # "Bracket" THEN Depth(e, i + 1, depth)
    ELSE Depth(e, i + 1, IF e[i].br = "Open" THEN depth + 1 ELSE depth - 1)

Balanced(e) == Depth(e, 1, 0) = 0

----------------------------------------------------------------------------
(* C1 .. C10 *)

\* C1: parse then resolve of "(3 + 4 * (2 - (3 + 1) * 5 + 3) - 6) * 2 + 4"
\* returns the integer -122, and parse then resolve of a bracket-free
\* expression of four integer literals joined by +, -, * returns its
\* conventional value (Mul above Add/Sub, left to right).
C1_ConventionalValue ==
    FirstResolveOver =>
        /\ infix = Expr122 => log[1] = ResolveGave(Ok(NaturalNumber(-122)))
        /\ infix \in FourOperands => log[1] = ResolveGave(Ok(FlatValue(infix)))

\* C2: parse then resolve of "3 * 2^3 + 6 / (2 + 1)" returns a Number equal
\* (tag and value) to DecimalNumber(26.0).
C2_Decimal26 ==
    (FirstResolveOver /\ infix = Expr26) =>
        log[1] = ResolveGave(Ok(DecimalNumber(26, 1)))

\* C3: for the tokens  fn ( a ) op b  the postfix the converter returns is
\* a fn b op, and for "sin(pi / 4) + cos(pi / 4)" it is
\* pi 4 / sin pi 4 / cos +.
C3_CallBeforeOperator ==
    Parsed =>
        /\ infix \in Calls =>
              rpn_expr = <<infix[3], infix[1], infix[6], infix[5]>>
        /\ infix = ExprSinCos =>
              rpn_expr = <<Var("pi"), N(4), Op("Div"), Fn("Sin"),
                           Var("pi"), N(4), Op("Div"), Fn("Cos"), Op("Add")>>

\* C4: once resolve of  name = v  (a variable, Eql, a literal) is over, the
\* heap binds the identifier name to v.
IsAssignment(e) ==
    /\ Len(e) = 3
    /\ e[1].type = "Variable"
    /\ e[2] = Op("Eql")
    /\ e[3].type = "Operand"

C4_AssignmentBindsName ==
    (IsAssignment(infix) /\ Len(log) = 1 /\ log[1].ev = "resolve") =>
        /\ infix[1].id \in DOMAIN local_heap
        /\ local_heap[infix[1].id] = infix[3].num

\* C5: in the sequence resolve(); set(name, value); resolve() on one handle
\* the second resolve returns a value, and for "x+1" with set("x", 1.0) that
\* value is the decimal 2.0.
C5_ResolveAfterSet ==
    (Len(log) = 3 /\ log[1].ev = "resolve" /\ log[1].ret.kind = "Ok"
        /\ log[2].ev = "set" /\ log[3].ev \in {"resolve", "panic"}) =>
        /\ log[3].ev = "resolve"
        /\ log[3].ret.kind = "Ok"
        /\ (infix = ExprXPlus1 /\ log[2].name = "x") =>
              log[3].ret = Ok(DecimalNumber(2, 1))

\* C6: during and after the conversion of any token sequence the heap still
\* binds PI to 3.1415.
C6_PIKeptByConversion ==
    (pc = "convert" \/ Parsed) =>
        /\ "PI" \in DOMAIN local_heap
        /\ local_heap["PI"] = PI

\* C7: resolve returns a Number exactly when one value is on the operand
\* stack at the end of the postfix sequence, and an error otherwise.
C7_ExactlyOneValue ==
    [][(pc = "resolve" /\ pc' = "ready") =>
          IF Len(result_stack) = 1 THEN ret' = Ok(result_stack[1])
          ELSE ret' = Err]_vars

\* C8: a resolve of a token sequence whose brackets do not balance does not
\* return a Number.
C8_UnbalancedFails ==
    (FirstResolveOver /\ ~Balanced(infix)) =>
        ~(log[1].ev = "resolve" /\ log[1].ret.kind = "Ok")

\* C9: a op1 b op2 c  with op1, op2 of equal precedence resolves to
\* (a op1 b) op2 c  for Add/Sub and for Mul/Div, and to  a ^ (b ^ c)  for Pow.
IsThreeOperands(e) ==
    /\ Len(e) = 5
    /\ IsOperand(e[1]) /\ IsOperand(e[3]) /\ IsOperand(e[5])
    /\ IsOperator(e[2]) /\ IsOperator(e[4])
    /\ e[2].op \in ArithOps /\ e[4].op \in ArithOps

SamePrecedence(o1, o2) ==
    \/ {o1, o2} \subseteq {"Add", "Sub"}
    \/ {o1, o2} \subseteq {"Mul", "Div"}
    \/ {o1, o2} \subseteq {"Pow"}

Grouped(e) ==
    IF e[2].op = "Pow"
    THEN Apply("Pow", e[1].num, Apply("Pow", e[3].num, e[5].num))
    ELSE Apply(e[4].op, Apply(e[2].op, e[1].num, e[3].num), e[5].num)

C9_Associativity ==
    (FirstResolveOver /\ IsThreeOperands(infix)
        /\ SamePrecedence(infix[2].op, infix[4].op)) =>
        log[1] = Ends(Grouped(infix))

C9_Witness ==
    /\ infix = ExprPowPow
    /\ log = <<ResolveGave(Ok(NaturalNumber(512)))>>

\* C10: evaluating a Variable token never fails and pushes one value; with
\* no set() on the handle, every variable other than the seeded PI is
\* evaluated to the integer zero, and resolve of  v + 1  for such a variable
\* v returns the integer 1.
IsVarPlusOne(e) ==
    /\ Len(e) = 3
    /\ e[1].type = "Variable"
    /\ e[1].id # "PI"
    /\ e[2] = Op("Add")
    /\ e[3] = N(1)

----------------------------------------------------------------------------
(* C11 .. C16 *)

\* The operands an Operator or Function step pops.
RightValue == Last(result_stack)
LeftValue == Last(Front(result_stack))

\* The evaluator is about to apply the binary operator op to two operands.
Applying(op) ==
    /\ Evaluating("Operator")
    /\ Head(rpn_expr).op = op
    /\ Len(result_stack) >= 2

IsZero(x) == x.n = 0 /\ x.d # 0
Infinite(x) == x \in {PosInf, NegInf}

C12_PopsEveryQualifying ==
    [][Scanning("Operator") =>
          LET ops == operators_stack'
              op1 == Last(ops)
              beneath == Last(Front(ops))
          IN  Len(ops) >= 2 =>
                  ~(beneath.type = "Operator" /\ compare_operator_priority(op1, beneath))]_vars

\* The value the evaluator reads for an operand or a variable token.
ValueOf(t, heap) == IF t.type = "Variable" THEN Lookup(heap, t.id) ELSE t.num

\* C13: applying Eql pops the right value and then the left value, binds the
\* display string of the left Number (not the identifier of the Variable
\* token it came from) to the right value in the environment, and pushes the
\* right value back; resolving a single assignment returns its right-hand
\* value.
C13_EqlBindsDisplayString ==
    [][/\ Applying("Eql") =>
            /\ local_heap' = HeapInsert(local_heap, to_string(LeftValue), RightValue)
            /\ result_stack' = Append(Front(Front(result_stack)), RightValue)
            /\ pc' = "resolve"
       /\ (Applying("Eql") /\ log = <<>> /\ infix = ExprAssign) =>
            /\ local_heap'["0"] = NaturalNumber(5)
            /\ local_heap'["x"] = NaturalNumber(0)
       /\ (Applying("Eql") /\ log = <<>> /\ infix = <<D(1, 2), Op("Eql"), N(3)>>) =>
            /\ DOMAIN local_heap' = {"PI", "0.5"}
            /\ local_heap'["0.5"] = NaturalNumber(3)
       /\ (pc = "resolve" /\ pc' = "ready" /\ log = <<>>
             /\ infix \in Assignments \cup {ExprAssign}) =>
            ret' = Ok(ValueOf(infix[3], local_heap))]_vars

C13_Witness ==
    /\ infix = ExprAssign
    /\ log = <<ResolveGave(Ok(NaturalNumber(5)))>>
    /\ DOMAIN local_heap = {"PI", "x", "0"}
    /\ local_heap["0"] = NaturalNumber(5)

IsNatural(v) == v.tag = "NaturalNumber"
IsDecimal(v) == v.tag = "DecimalNumber"

C14_FunctionWitness ==
    /\ infix = <<N(2), Fn("Abs")>>
    /\ log = <<ResolveGave(Ok(DecimalNumber(2, 1)))>>

\* An Operator or Function token is about to be evaluated with too few
\* values on the operand stack.
Underflow ==
    \/ Evaluating("Operator") /\ Len(result_stack) < 2
    \/ /\ Evaluating("Function")
       /\ Head(rpn_expr).fn # "None"
       /\ Len(result_stack) < (IF Head(rpn_expr).fn \in {"Max", "Min"} THEN 2 ELSE 1)

\* C15: an Operator or Function token evaluated with too few values on the
\* operand stack does not make resolve panic: the call goes on to return a
\* typed error to its caller.
C15_UnderflowIsTypedError ==
    [][Underflow => pc' # "panicked"]_vars

\* The tokens scanned so far.
Scanned == SubSeq(infix, 1, idx - 1)

Count(t, seq) == Cardinality({i \in DOMAIN seq : seq[i] = t})

IsBracket(t) == t.type = "Bracket"
IsOperandOrVariable(t) == t.type \in {"Operand", "Variable"}
NonBrackets(seq) == SelectSeq(seq, LAMBDA t : ~IsBracket(t))

\* The Open brackets of e[i..] not yet discarded by a matching Close, open
\* being those left of e[i]; a Close with no Open to match discards none.
RECURSIVE OpenLeft(_, _, _)
OpenLeft(e, i, open) ==
    IF i > Len(e) THEN open
    ELSE IF e[i] = Open THEN OpenLeft(e, i + 1, open + 1)
    ELSE IF e[i] = Close /\ open > 0 THEN OpenLeft(e, i + 1, open - 1)
    ELSE OpenLeft(e, i + 1, open)

Tokens(seq) == {seq[i] : i \in DOMAIN seq}

\* C16: at every step of the conversion the output queue and the operator
\* stack together hold exactly the tokens scanned so far, minus the Close
\* brackets and the Open brackets discarded by a matching Close; Operand and
\* Variable tokens are in the output in their original order; a Close is
\* never in the output or on the stack; for bracket-balanced input the final
\* postfix is a permutation of the non-bracket input tokens and the operator
\* stack is empty.
C16_NoTokenLost ==
    /\ pc = "convert" =>
        /\ \A t \in Tokens(infix) \ {Open, Close} :
              Count(t, postfix_stack) + Count(t, operators_stack) = Count(t, Scanned)
        /\ Count(Open, postfix_stack) = 0
        /\ Count(Open, operators_stack) = OpenLeft(Scanned, 1, 0)
        /\ Len(postfix_stack) + Len(operators_stack)
              = Len(NonBrackets(Scanned)) + OpenLeft(Scanned, 1, 0)
        /\ SelectSeq(postfix_stack, IsOperandOrVariable)
              = SelectSeq(Scanned, IsOperandOrVariable)
        /\ Count(Close, postfix_stack) = 0
        /\ Count(Close, operators_stack) = 0
    /\ (Parsed /\ Balanced(infix)) =>
        /\ \A t \in Tokens(infix) \ {Open, Close} : Count(t, rpn_expr) = Count(t, infix)
        /\ Len(rpn_expr) = Len(NonBrackets(infix))
        /\ SelectSeq(rpn_expr, IsOperandOrVariable) = SelectSeq(infix, IsOperandOrVariable)
        /\ operators_stack = <<>>

C16_Witness ==
    /\ Parsed
    /\ infix = Expr122
    /\ Len(rpn_expr) = 19

====
